---- MODULE Spec2Model ----
(***************************************************************************)
(* Memory blocks and ROM blocks of pyrtl/memory.py: construction, indexing *)
(* (mem[a]), read-port inference, the two-step write (mem[a] <<= d and     *)
(* mem[a] |= d: __getitem__, __ilshift__/__ior__, __setitem__), the raw    *)
(* write-port builder and RomBlock._get_read_data.                         *)
(*                                                                         *)
(* Not modelled: display names (core.next_tempvar_name), the block's set   *)
(* of wirevectors, and integer/string operands of as_wires (every operand  *)
(* here is a wire or an indexed access).                                   *)
(***************************************************************************)
EXTENDS Integers, Sequences, FiniteSets, TLC

VARIABLES
    mems,          \* the memories constructed so far, in construction order
    memid_count,   \* core.next_memid's counter
    nets,          \* the working block's LogicNets, in the order add_net got them
    wire_count,    \* number of WireVector objects built by _build_read_port
    indexed,       \* the _MemIndexed handles the caller holds
    assignments,   \* the _MemAssignment values the caller holds
    cond_pending,  \* writes handed to conditional.ConditionalUpdate, not yet built
    intent_hist,   \* history: per _MemAssignment, the memory that produced it and
                   \* the memories whose __setitem__ turned it into a write
    last           \* history: the last call, its arguments and how it ended

vars == <<mems, memid_count, nets, wire_count, indexed, assignments,
          cond_pending, intent_hist, last>>

\* ------------------------------------------------------------------ bounds
MaxWidth == 2
MaxMems == 2
MaxNets == 2
MaxIndexed == 1
MaxIntents == 1
MaxTableLen == 3

RECURSIVE Pow2(_)
Pow2(n) == IF n <= 0 THEN 1 ELSE 2 * Pow2(n - 1)

\* ------------------------------------------------------------------ values
\* bitwidth and addrwidth arguments offered to the constructors
Dims == -1 .. MaxWidth

\* A wire: kind "wire" is a WireVector the caller already has (one per width),
\* "rd" the data wire of a read port, "const" wire.Const(1, bitwidth=1),
\* "cond" the enable the conditional component passes to the raw builder.
\* ow is the width before coercion widened it, val the value of a constant
\* (-1 for a wire that is none).
Wire(width) == [kind |-> "wire", uid |-> 0, val |-> -1, w |-> width, ow |-> width]
CallerWires == {Wire(width) : width \in 1 .. MaxWidth}

Operands == CallerWires \cup {indexed[i] : i \in DOMAIN indexed}

EnabledWrite(data, enable) == [kind |-> "EnabledWrite", data |-> data, enable |-> enable]

\* What may stand on the right of <<= or |=
RhsValues == Operands \cup {EnabledWrite(d, e) : d \in Operands, e \in Operands}

NoErr == "none"

World == [mems |-> mems, nets |-> nets, wire_count |-> wire_count]

\* _MemIndexed.__len__: an indexed access is as wide as its memory's words
OperandLen(wd, val) ==
    IF val.kind = "indexed" THEN wd.mems[val.mem].bitwidth ELSE val.w

\* ------------------------------------------------------------------ reads
\* LogicNet(op='m', op_param=(self.id, self), args=(addr,), dests=(data,))
ReadNet(mem, ref, addr, data) ==
    [op |-> "m", op_param |-> [id |-> mem.id, ref |-> ref],
     args |-> <<addr>>, dests |-> <<data>>]

\* a read port that is reused when the address was read before
_build_read_port_cached(wd, m, addr) ==
    LET mem == wd.mems[m]
        hits == {k \in DOMAIN mem.readport_nets : mem.readport_nets[k].args = <<addr>>}
        data == [kind |-> "rd", uid |-> wd.wire_count + 1, val |-> -1,
                 w |-> mem.bitwidth, ow |-> mem.bitwidth]
        readport_net == ReadNet(mem, m, addr, data)
    IN  IF hits # {}
        THEN [world |-> wd, ret |-> mem.readport_nets[CHOOSE k \in hits : TRUE].dests[1]]
        ELSE [world |-> [mems |-> [wd.mems EXCEPT ![m].readport_nets = Append(@, readport_net)],
                         nets |-> Append(wd.nets, readport_net),
                         wire_count |-> wd.wire_count + 1],
              ret |-> data]

_build_read_port(wd, m, addr) ==
    LET mem == wd.mems[m]
        data == [kind |-> "rd", uid |-> wd.wire_count + 1, val |-> -1,
                 w |-> mem.bitwidth, ow |-> mem.bitwidth]
        readport_net == ReadNet(mem, m, addr, data)
    IN  [world |-> [mems |-> [wd.mems EXCEPT ![m].readport_nets = Append(@, readport_net)],
                    nets |-> Append(wd.nets, readport_net),
                    wire_count |-> wd.wire_count + 1],
         ret |-> data]

_readaccess(wd, m, addr) == _build_read_port(wd, m, addr)

\* helperfuncs.as_wires(val, bitwidth, truncating=False): an indexed access
\* becomes a memory read when it is used as a value; a wire narrower than
\* bitwidth is widened, a wider one is left as it is.
Widen(sig, bitwidth) == IF sig.w < bitwidth THEN [sig EXCEPT !.w = bitwidth] ELSE sig

as_wires(wd, val, bitwidth) ==
    IF val.kind = "indexed"
    THEN LET r == _readaccess(wd, val.mem, val.index)
         IN  [world |-> r.world, ret |-> Widen(r.ret, bitwidth)]
    ELSE [world |-> wd, ret |-> Widen(val, bitwidth)]

\* ------------------------------------------------------------------ history
Call(op, m, args, intent, err) ==
    [op |-> op, mem |-> m, args |-> args, intent |-> intent, err |-> err,
     ret |-> 0, called |-> <<>>]

SetWorld(wd) ==
    /\ mems' = wd.mems
    /\ nets' = wd.nets
    /\ wire_count' = wd.wire_count

\* ------------------------------------------------------------------ construction
\* the checks with < in place of <=
ConfigInvalid_strict(bitwidth, addrwidth) == bitwidth < 0 \/ addrwidth < 0

ConfigInvalid(bitwidth, addrwidth) == bitwidth <= 0 \/ addrwidth <= 0

\* _MemReadBase.__init__ after its two checks
MemReadBase_init(bitwidth, addrwidth, id) ==
    [bitwidth |-> bitwidth, addrwidth |-> addrwidth, readport_nets |-> <<>>, id |-> id]

next_memid == memid_count + 1

Construct(op, bitwidth, addrwidth, extra) ==
    IF ConfigInvalid(bitwidth, addrwidth)
    THEN /\ last' = Call(op, 0, <<bitwidth, addrwidth>>, 0, "ConfigurationError")
         /\ UNCHANGED <<mems, memid_count, nets, wire_count, indexed, assignments,
                        cond_pending, intent_hist>>
    ELSE /\ Len(mems) < MaxMems
         /\ mems' = Append(mems, MemReadBase_init(bitwidth, addrwidth, next_memid) @@ extra)
         /\ memid_count' = next_memid
         /\ last' = Call(op, Len(mems) + 1, <<bitwidth, addrwidth>>, 0, NoErr)
         /\ UNCHANGED <<nets, wire_count, indexed, assignments, cond_pending, intent_hist>>

MemBlock_init(bitwidth, addrwidth) ==
    Construct("MemBlock", bitwidth, addrwidth, [kind |-> "ram", writeport_nets |-> <<>>])

\* The data of a RomBlock: a Python function, a callable object that is no
\* types.FunctionType (a functools.partial, a bound method, an instance with
\* __call__) and cannot be subscripted, a list, or an object that is neither
\* callable nor subscriptable.
Generator == [src |-> "function", store |-> <<>>]
CallableObject == [src |-> "callable", store |-> <<>>]
NoSource == [src |-> "other", store |-> <<>>]
Table(store) == [src |-> "table", store |-> store]

RomBlock_init(bitwidth, addrwidth, data) ==
    Construct("RomBlock", bitwidth, addrwidth, [kind |-> "rom", data |-> data])

\* _make_copy: MemBlock(self.bitwidth, self.addrwidth, self.name, block) or
\* RomBlock(self.bitwidth, self.addrwidth, self.data, self.name, block)
_make_copy(m) ==
    IF mems[m].kind = "ram"
    THEN MemBlock_init(mems[m].bitwidth, mems[m].addrwidth)
    ELSE RomBlock_init(mems[m].bitwidth, mems[m].addrwidth, mems[m].data)

\* ------------------------------------------------------------------ indexing
AddrTooWide(item, mem) == item.w > mem.addrwidth

\* _MemReadBase.__getitem__: mem[item]
MemReadBase_getitem(m, item) ==
    LET r == as_wires(World, item, mems[m].addrwidth)
    IN  /\ Len(r.world.nets) <= MaxNets
        /\ SetWorld(r.world)
        /\ IF AddrTooWide(r.ret, mems[m])
           THEN /\ last' = Call("getitem", m, <<item>>, 0, "AddressWidthError")
                /\ UNCHANGED indexed
           ELSE /\ Len(indexed) < MaxIndexed
                /\ indexed' = Append(indexed, [kind |-> "indexed", mem |-> m, index |-> r.ret])
                /\ last' = Call("getitem", m, <<item>>, 0, NoErr)
        /\ UNCHANGED <<memid_count, assignments, cond_pending, intent_hist>>

\* A _MemIndexed used as a value (logicop, __invert__, ... all go through
\* as_wires(self)): the read port is built there and then.
MemIndexed_as_value(i) ==
    LET r == as_wires(World, indexed[i], mems[indexed[i].mem].bitwidth)
    IN  /\ Len(r.world.nets) <= MaxNets
        /\ SetWorld(r.world)
        /\ last' = Call("read", indexed[i].mem, <<indexed[i]>>, 0, NoErr)
        /\ UNCHANGED <<memid_count, indexed, assignments, cond_pending, intent_hist>>

\* ------------------------------------------------------------------ capture
_MemAssignment(rhs, is_conditional) == [rhs |-> rhs, is_conditional |-> is_conditional]

Capture(op, i, other, is_conditional) ==
    /\ Len(assignments) < MaxIntents
    /\ assignments' = Append(assignments, _MemAssignment(other, is_conditional))
    /\ intent_hist' = Append(intent_hist, [origin |-> indexed[i].mem, built |-> <<>>])
    /\ last' = Call(op, indexed[i].mem, <<other>>, Len(assignments) + 1, NoErr)
    /\ UNCHANGED <<mems, memid_count, nets, wire_count, indexed, cond_pending>>

\* _MemIndexed.__ilshift__: mem[a] <<= other
MemIndexed_ilshift(i, other) == Capture("ilshift", i, other, FALSE)

\* _MemIndexed.__ior__: mem[a] |= other
MemIndexed_ior(i, other) == Capture("ior", i, other, TRUE)

\* ------------------------------------------------------------------ commit
\* wire.Const(1, bitwidth=1)
ImplicitEnable == [kind |-> "const", uid |-> 0, val |-> 1, w |-> 1, ow |-> 1]

\* LogicNet(op='@', op_param=(self.id, self), args=(addr, data, enable), dests=tuple())
\* data and address in each other's place
WriteNet_swapped(mem, ref, addr, data, enable) ==
    [op |-> "@", op_param |-> [id |-> mem.id, ref |-> ref],
     args |-> <<data, addr, enable>>, dests |-> <<>>]

WriteNet(mem, ref, addr, data, enable) ==
    [op |-> "@", op_param |-> [id |-> mem.id, ref |-> ref],
     args |-> <<addr, data, enable>>, dests |-> <<>>]

_build_write_port(wd, m, addr, data, enable) ==
    LET writeport_net == WriteNet(wd.mems[m], m, addr, data, enable)
    IN  [mems |-> [wd.mems EXCEPT ![m].writeport_nets = Append(@, writeport_net)],
         nets |-> Append(wd.nets, writeport_net),
         wire_count |-> wd.wire_count]

\* conditional.ConditionalUpdate._build_write_port(mem, addr, data, enable):
\* the write waits for the enclosing condition.
ConditionalUpdate_build_write_port(pend, m, addr, data, enable) ==
    Append(pend, [mem |-> m, addr |-> addr, data |-> data, enable |-> enable])

\* a conditional write that is handed over and built at once as well
Dispatch_builds_too(wd, pend, m, addr, data, enable, is_conditional) ==
    [world |-> _build_write_port(wd, m, addr, data, enable),
     pending |-> IF is_conditional
                 THEN ConditionalUpdate_build_write_port(pend, m, addr, data, enable)
                 ELSE pend,
     err |-> NoErr]

\* lines 158-161: where a validated write goes
Dispatch(wd, pend, m, addr, data, enable, is_conditional) ==
    IF is_conditional
    THEN [world |-> wd,
          pending |-> ConditionalUpdate_build_write_port(pend, m, addr, data, enable),
          err |-> NoErr]
    ELSE [world |-> _build_write_port(wd, m, addr, data, enable),
          pending |-> pend, err |-> NoErr]

DataWidthBad(data, mem) == data.w # mem.bitwidth
EnableWidthBad(enable) == enable.w # 1

\* MemBlock._assignment
_assignment(wd, pend, m, item, val, is_conditional) ==
    LET mem == wd.mems[m]
        r1 == as_wires(wd, item, mem.addrwidth)
        addr == r1.ret
        isEW == val.kind = "EnabledWrite"
        data0 == IF isEW THEN val.data ELSE val
        enable0 == IF isEW THEN val.enable ELSE ImplicitEnable
        r2 == as_wires(r1.world, data0, mem.bitwidth)
        r3 == as_wires(r2.world, enable0, 1)
    IN  IF AddrTooWide(addr, mem)
        THEN [world |-> r1.world, pending |-> pend, err |-> "AddressWidthError"]
        ELSE IF DataWidthBad(r2.ret, mem)
        THEN [world |-> r3.world, pending |-> pend, err |-> "DataWidthError"]
        ELSE IF EnableWidthBad(r3.ret)
        THEN [world |-> r3.world, pending |-> pend, err |-> "EnableWidthError"]
        ELSE Dispatch(r3.world, pend, m, addr, r2.ret, r3.ret, is_conditional)

\* MemBlock.__setitem__: mem[item] = value, value one of the caller's
\* _MemAssignment values (j > 0) or anything else (j = 0)
MemBlock_setitem(m, item, j, plain) ==
    IF j = 0
    THEN /\ last' = Call("setitem", m, <<item, plain>>, 0, "ProtocolError")
         /\ UNCHANGED <<mems, memid_count, nets, wire_count, indexed, assignments,
                        cond_pending, intent_hist>>
    ELSE LET r == _assignment(World, cond_pending, m, item, assignments[j].rhs,
                              assignments[j].is_conditional)
         IN  /\ Len(r.world.nets) + Len(r.pending) <= MaxNets
             /\ SetWorld(r.world)
             /\ cond_pending' = r.pending
             /\ intent_hist' = IF r.err = NoErr
                               THEN [intent_hist EXCEPT ![j].built = Append(@, m)]
                               ELSE intent_hist
             /\ last' = Call("setitem", m, <<item, assignments[j]>>, j, r.err)
             /\ UNCHANGED <<memid_count, indexed, assignments>>

\* a base __setitem__ that accepts a captured write
MemReadBase_setitem_accepts(m, item, j, plain) ==
    IF j = 0
    THEN /\ last' = Call("setitem", m, <<item, plain>>, 0, "ProtocolError")
         /\ UNCHANGED <<mems, memid_count, nets, wire_count, indexed, assignments,
                        cond_pending, intent_hist>>
    ELSE /\ Len(nets) < MaxNets
         /\ nets' = Append(nets, WriteNet(mems[m], m, Wire(1), Wire(1), ImplicitEnable))
         /\ last' = Call("setitem", m, <<item, assignments[j]>>, j, NoErr)
         /\ UNCHANGED <<mems, memid_count, wire_count, indexed, assignments,
                        cond_pending, intent_hist>>

\* _MemReadBase.__setitem__, the one a RomBlock has
MemReadBase_setitem(m, item, j, plain) ==
    /\ last' = Call("setitem", m,
                    <<item, IF j = 0 THEN plain ELSE assignments[j]>>, j, "ProtocolError")
    /\ UNCHANGED <<mems, memid_count, nets, wire_count, indexed, assignments,
                   cond_pending, intent_hist>>

SetItem(m, item, j, plain) ==
    IF mems[m].kind = "ram"
    THEN MemBlock_setitem(m, item, j, plain)
    ELSE MemReadBase_setitem(m, item, j, plain)

\* The conditional component, when the enclosing condition is complete, calls
\* the raw builder once for the write it was handed, with the combined enable.
CombinedEnable(enable) == [enable EXCEPT !.kind = "cond"]

ConditionalUpdate_finalize ==
    /\ cond_pending # <<>>
    /\ LET p == Head(cond_pending)
       IN  SetWorld(_build_write_port(World, p.mem, p.addr, p.data, CombinedEnable(p.enable)))
    /\ cond_pending' = Tail(cond_pending)
    /\ last' = Call("finalize", Head(cond_pending).mem, <<>>, 0, NoErr)
    /\ UNCHANGED <<memid_count, indexed, assignments, intent_hist>>

\* ------------------------------------------------------------------ ROM data
\* What a call of the data function can do: return a value, raise an
\* Exception, or raise something that is no Exception (KeyboardInterrupt,
\* SystemExit, GeneratorExit).
RomValues == -1 .. Pow2(MaxWidth)
FnOutcomes == {[how |-> "return", v |-> v] : v \in RomValues}
              \cup {[how |-> "raise Exception", v |-> 0],
                    [how |-> "raise BaseException", v |-> 0]}

AddressInvalid(address, addrwidth) == address < 0 \/ address > Pow2(addrwidth) - 1
\* the upper check off by one
ValueInvalid_lax(value, bitwidth) == value < 0 \/ value > Pow2(bitwidth)

ValueInvalid(value, bitwidth) == value < 0 \/ value >= Pow2(bitwidth)

Resolved(m, address, err, ret, called) ==
    [op |-> "get_read_data", mem |-> m, args |-> <<address>>, intent |-> 0,
     err |-> err, ret |-> ret, called |-> called]

CheckValue(m, address, value, called) ==
    IF ValueInvalid(value, mems[m].bitwidth)
    THEN Resolved(m, address, "ValueOutOfRange", 0, called)
    ELSE Resolved(m, address, NoErr, value, called)

\* RomBlock._get_read_data with a data function whose call ends as out
ResolveFunction(m, address, out) ==
    LET called == <<[arg |-> address, out |-> out]>>
    IN  IF out.how = "raise Exception"
        THEN Resolved(m, address, "ResolutionError", 0, called)
        ELSE IF out.how = "raise BaseException"
        THEN Resolved(m, address, "RawFault", 0, called)
        ELSE CheckValue(m, address, out.v, called)

IsFunctionType(data) == data.src = "function"

\* RomBlock._get_read_data with data that is no types.FunctionType
ResolveIndexed(m, address) ==
    LET data == mems[m].data
    IN  IF data.src # "table"
        THEN Resolved(m, address, "InvalidSourceType", 0, <<>>)
        ELSE IF address + 1 \notin DOMAIN data.store
        THEN Resolved(m, address, "AddressOutOfRange", 0, <<>>)
        ELSE CheckValue(m, address, data.store[address + 1], <<>>)

_get_read_data(m, address) ==
    /\ mems[m].kind = "rom"
    /\ IF AddressInvalid(address, mems[m].addrwidth)
       THEN last' = Resolved(m, address, "AddressOutOfRange", 0, <<>>)
       ELSE IF IsFunctionType(mems[m].data)
       THEN \E out \in FnOutcomes : last' = ResolveFunction(m, address, out)
       ELSE last' = ResolveIndexed(m, address)
    /\ UNCHANGED <<mems, memid_count, nets, wire_count, indexed, assignments,
                   cond_pending, intent_hist>>

\* ------------------------------------------------------------------ specifications
MainRomData == {Generator}

Init ==
    /\ mems = <<>>
    /\ memid_count = 0
    /\ nets = <<>>
    /\ wire_count = 0
    /\ indexed = <<>>
    /\ assignments = <<>>
    /\ cond_pending = <<>>
    /\ intent_hist = <<>>
    /\ last = Call("init", 0, <<>>, 0, NoErr)

Mems == DOMAIN mems

\* Shapes offered to the constructors here: bitwidth 0 fails; in the others
\* bitwidth + addrwidth = MaxWidth + 1, which gives memories whose words are
\* narrower than their addresses and memories whose words are wider.
MainShapes == {<<b, MaxWidth + 1 - b>> : b \in 0 .. MaxWidth}

Next ==
    \/ \E s \in MainShapes : MemBlock_init(s[1], s[2])
    \/ \E s \in MainShapes, d \in MainRomData : RomBlock_init(s[1], s[2], d)
    \/ \E m \in Mems : _make_copy(m)
    \/ \E m \in Mems, item \in Operands : MemReadBase_getitem(m, item)
    \/ \E i \in DOMAIN indexed : MemIndexed_as_value(i)
    \/ \E i \in DOMAIN indexed, other \in RhsValues : MemIndexed_ilshift(i, other)
    \/ \E i \in DOMAIN indexed, other \in RhsValues : MemIndexed_ior(i, other)
    \/ \E m \in Mems, item \in Operands, j \in DOMAIN assignments :
          SetItem(m, item, j, Wire(1))
    \/ \E m \in Mems, item \in Operands, plain \in CallerWires :
          SetItem(m, item, 0, plain)
    \/ ConditionalUpdate_finalize

Spec == Init /\ [][Next]_vars

\* A read-only table after construction, and its resolutions
RomTables == UNION {[1 .. n -> RomValues] : n \in 0 .. MaxTableLen}
RomSources == {CallableObject, Generator, NoSource} \cup {Table(t) : t \in RomTables}

InitRom ==
    /\ \E b \in 1 .. MaxWidth, a \in 1 .. MaxWidth, d \in RomSources :
          mems = <<MemReadBase_init(b, a, 1) @@ [kind |-> "rom", data |-> d]>>
    /\ memid_count = 1
    /\ nets = <<>>
    /\ wire_count = 0
    /\ indexed = <<>>
    /\ assignments = <<>>
    /\ cond_pending = <<>>
    /\ intent_hist = <<>>
    /\ last = Call("RomBlock", 1, <<>>, 0, NoErr)

RomAddresses == -1 .. Pow2(MaxWidth)

\* Construction alone, with every pair of widths
NextCtor ==
    \/ \E b \in Dims, a \in Dims : MemBlock_init(b, a)
    \/ \E b \in Dims, a \in Dims, d \in MainRomData : RomBlock_init(b, a, d)
    \/ \E m \in Mems : _make_copy(m)

SpecCtor == Init /\ [][NextCtor]_vars

NextRom == \E m \in Mems, address \in RomAddresses : _get_read_data(m, address)

SpecRom == InitRom /\ [][NextRom]_vars

\* ------------------------------------------------------------------ helpers of the properties
IsPrefix(s, t) == Len(s) <= Len(t) /\ SubSeq(t, 1, Len(s)) = s
IsWrite(n) == n.op = "@"
IsRead(n) == n.op = "m"
WriteNodes(seq) == SelectSeq(seq, IsWrite)
ReadNodes(seq) == SelectSeq(seq, IsRead)
IsCommit(c) == c.op = "setitem" /\ c.intent # 0 /\ mems[c.mem].kind = "ram"
\* the same signal, whatever coercion widened it to
SameSignal(x, y) == [x EXCEPT !.w = 0] = [y EXCEPT !.w = 0]
IndexedOf(val, m) == IF val.kind = "indexed" /\ val.mem = m THEN 1 ELSE 0
WritePortsUnchanged ==
    /\ WriteNodes(nets') = WriteNodes(nets)
    /\ \A i \in DOMAIN mems :
          mems[i].kind = "ram" => mems'[i].writeport_nets = mems[i].writeport_nets

\* ------------------------------------------------------------------ C1
\* C1: a commit mem[a] := EnabledWrite(d, e) that fails with EnableWidthError
\* leaves the netlist's nodes and every memory's read-port and write-port
\* lists as they were before the call.
C1_FailedEnableAddsNoNode ==
    [][(IsCommit(last') /\ last'.err = "EnableWidthError")
          => (nets' = nets /\ mems' = mems)]_vars

\* ------------------------------------------------------------------ C2
\* C2: each WriteIntent is turned into a write at most once, and only by the
\* memory whose indexed access produced it.
C2_ConsumedOnceByOwner ==
    \A j \in DOMAIN intent_hist :
        /\ Len(intent_hist[j].built) <= 1
        /\ \A k \in DOMAIN intent_hist[j].built :
              intent_hist[j].built[k] = intent_hist[j].origin

\* ------------------------------------------------------------------ C3
\* C3: every __setitem__ on a read-only table, with a captured unconditional
\* or conditional write or with a plain value, ends in ProtocolError; a
\* read-only table has no write-port list, no write node among its ports, no
\* write node in the netlist carrying its identifier, and no write waiting in
\* the conditional component.
C3_RomNeverWritten ==
    /\ (last.op = "setitem" /\ mems[last.mem].kind = "rom") => last.err = "ProtocolError"
    /\ \A m \in DOMAIN mems :
          mems[m].kind = "rom" =>
             /\ "writeport_nets" \notin DOMAIN mems[m]
             /\ \A k \in DOMAIN mems[m].readport_nets : IsRead(mems[m].readport_nets[k])
             /\ \A k \in DOMAIN nets :
                   IsWrite(nets[k]) => /\ nets[k].op_param.id # mems[m].id
                                       /\ nets[k].op_param.ref # m
             /\ \A k \in DOMAIN cond_pending : cond_pending[k].mem # m

\* a conditional write captured on a read-only table and assigned to it
C3_Witness ==
    /\ last.op = "setitem" /\ last.intent # 0
    /\ mems[last.mem].kind = "rom"
    /\ assignments[last.intent].is_conditional
    /\ intent_hist[last.intent].origin = last.mem
    /\ last.err = "ProtocolError"

\* ------------------------------------------------------------------ C4
\* C4: mem[a] and the commit of a write fail with AddressWidthError exactly
\* when a is wider than the address width, and then no node has been built:
\* the netlist and the port lists are as before.
C4_AddressCheckBuildsNothing ==
    [][((last'.op = "getitem" \/ IsCommit(last'))
          => LET m == last'.mem
                 item == last'.args[1]
             IN  /\ OperandLen(World, item) <= mems[m].addrwidth
                       => last'.err # "AddressWidthError"
                 /\ OperandLen(World, item) > mems[m].addrwidth
                       => last'.err = "AddressWidthError"
                 /\ last'.err = "AddressWidthError" => (nets' = nets /\ mems' = mems))]_vars

\* ------------------------------------------------------------------ C7
C7_Case ==
    /\ IsCommit(last')
    /\ ~assignments[last'.intent].is_conditional
    /\ assignments[last'.intent].rhs.kind # "EnabledWrite"
    /\ OperandLen(World, assignments[last'.intent].rhs) = mems[last'.mem].bitwidth
    /\ OperandLen(World, last'.args[1]) <= mems[last'.mem].addrwidth

\* one write node, of the shape the raw builder gives it, at the end of the
\* memory's write-port list and of the netlist
C7_OneWritePort ==
    LET m == last'.mem
        item == last'.args[1]
        rhs == assignments[last'.intent].rhs
        new == mems'[m].writeport_nets
        n == new[Len(new)]
    IN  /\ last'.err = NoErr
        /\ new = Append(mems[m].writeport_nets, n)
        /\ nets' # <<>> /\ nets'[Len(nets')] = n
        /\ WriteNodes(nets') = Append(WriteNodes(nets), n)
        /\ \A i \in DOMAIN mems :
              (i # m /\ mems[i].kind = "ram")
                 => mems'[i].writeport_nets = mems[i].writeport_nets
        /\ n.op = "@"
        /\ n.op_param = [id |-> mems[m].id, ref |-> m]
        /\ n.dests = <<>>
        /\ Len(n.args) = 3
        /\ n.args[3].kind = "const" /\ n.args[3].val = 1 /\ n.args[3].w = 1
        /\ n.args[2].w = mems[m].bitwidth
        /\ n.args[1].w <= mems[m].addrwidth
        /\ item.kind # "indexed" => SameSignal(n.args[1], item)
        /\ rhs.kind # "indexed" => SameSignal(n.args[2], rhs)
        /\ item.kind = "indexed" =>
              \E k \in DOMAIN nets' : k > Len(nets) /\ IsRead(nets'[k])
                                      /\ SameSignal(nets'[k].dests[1], n.args[1])
        /\ rhs.kind = "indexed" =>
              \E k \in DOMAIN nets' : k > Len(nets) /\ IsRead(nets'[k])
                                      /\ nets'[k].dests[1] = n.args[2]

\* C7 as claimed: an unconditional write of a value as wide as the words, at
\* an address no wider than the address width, appends exactly one write node
\* (memory identifier and reference; address, data, constant-1 enable; no
\* result) to the write-port list and the netlist and leaves the memory's
\* read-port list unchanged.
C7_Original ==
    [][C7_Case => (C7_OneWritePort
                   /\ mems'[last'.mem].readport_nets = mems[last'.mem].readport_nets)]_vars

\* C7 amended: ... and the memory's read-port list grows by one read port for
\* each of the address and the data that is an indexed access of this memory
\* (it is unchanged when neither is).
C7_Amended ==
    [][C7_Case =>
          (C7_OneWritePort
           /\ LET m == last'.mem
                  grown == IndexedOf(last'.args[1], m)
                           + IndexedOf(assignments[last'.intent].rhs, m)
              IN  /\ IsPrefix(mems[m].readport_nets, mems'[m].readport_nets)
                  /\ Len(mems'[m].readport_nets) = Len(mems[m].readport_nets) + grown
                  /\ Len(ReadNodes(nets')) =
                        Len(ReadNodes(nets))
                        + (IF last'.args[1].kind = "indexed" THEN 1 ELSE 0)
                        + (IF assignments[last'.intent].rhs.kind = "indexed" THEN 1 ELSE 0))]_vars

\* mem[a] <<= mem[b] has been committed: one write port, one more read port
C7_Witness ==
    /\ last.op = "setitem" /\ last.intent # 0 /\ last.err = NoErr
    /\ mems[last.mem].kind = "ram"
    /\ ~assignments[last.intent].is_conditional
    /\ assignments[last.intent].rhs.kind = "indexed"
    /\ assignments[last.intent].rhs.mem = last.mem
    /\ last.args[1].kind = "wire"
    /\ Len(mems[last.mem].writeport_nets) = 1
    /\ Len(mems[last.mem].readport_nets) = 1

\* ------------------------------------------------------------------ C8
\* the read ports are pairwise distinct, so are their outputs; each is as wide
\* as its memory's words, carries its memory's identifier and is in the netlist
C8_ReadPortsInv ==
    /\ \A i, j \in DOMAIN nets :
          (i # j /\ IsRead(nets[i]) /\ IsRead(nets[j]))
             => (nets[i] # nets[j] /\ nets[i].dests # nets[j].dests)
    /\ \A m \in DOMAIN mems :
          \A k \in DOMAIN mems[m].readport_nets :
             LET n == mems[m].readport_nets[k]
             IN  /\ IsRead(n)
                 /\ Len(n.dests) = 1 /\ n.dests[1].w = mems[m].bitwidth
                 /\ n.op_param = [id |-> mems[m].id, ref |-> m]
                 /\ \E i \in DOMAIN nets : nets[i] = n
                 /\ \A k2 \in DOMAIN mems[m].readport_nets :
                       k2 # k => mems[m].readport_nets[k2] # n

\* C8: every step keeps the read ports pairwise distinct, as wide as the
\* words and registered in the netlist, and only extends the read-port lists
\* and the netlist; a read access appends exactly one node, not in the
\* netlist before, to both.
C8_FreshReadPorts ==
    [][/\ C8_ReadPortsInv'
       /\ IsPrefix(nets, nets')
       /\ \A m \in DOMAIN mems :
             /\ m \in DOMAIN mems'
             /\ IsPrefix(mems[m].readport_nets, mems'[m].readport_nets)
       /\ last'.op = "read" =>
             LET m == last'.mem
                 h == last'.args[1]
                 new == mems'[m].readport_nets
                 n == new[Len(new)]
             IN  /\ new = Append(mems[m].readport_nets, n)
                 /\ nets' = Append(nets, n)
                 /\ n.args = <<h.index>>
                 /\ \A i \in DOMAIN nets : nets[i] # n]_vars

\* the same indexed access read twice: two read ports on one address
C8_Witness ==
    /\ last.op = "read"
    /\ Len(mems[last.mem].readport_nets) = 2
    /\ Len(nets) = 2
    /\ mems[last.mem].readport_nets[1].args = mems[last.mem].readport_nets[2].args
    /\ mems[last.mem].readport_nets[1].dests # mems[last.mem].readport_nets[2].dests

\* ------------------------------------------------------------------ C9
\* C9: a construction fails with ConfigurationError exactly when bitwidth or
\* addrwidth is <= 0; a constructed memory has the widths asked for and empty
\* port lists; identifiers are pairwise distinct; and the identifiers
\* allocated are as many as the memories constructed (a failed construction
\* allocates none).
C9_Construction ==
    /\ last.op \in {"MemBlock", "RomBlock"} =>
          /\ (last.err = "ConfigurationError") <=> (last.args[1] <= 0 \/ last.args[2] <= 0)
          /\ last.err # "ConfigurationError" =>
                /\ last.err = NoErr
                /\ last.mem = Len(mems)
                /\ mems[last.mem].bitwidth = last.args[1]
                /\ mems[last.mem].addrwidth = last.args[2]
                /\ mems[last.mem].readport_nets = <<>>
                /\ (last.op = "MemBlock") <=> (mems[last.mem].kind = "ram")
                /\ mems[last.mem].kind = "ram" => mems[last.mem].writeport_nets = <<>>
    /\ \A i, j \in DOMAIN mems : i # j => mems[i].id # mems[j].id
    /\ memid_count = Len(mems)

\* a failed construction after two successful ones
C9_Witness ==
    /\ Len(mems) = 2
    /\ mems[1].kind # mems[2].kind
    /\ last.op = "RomBlock" /\ last.err = "ConfigurationError"
    /\ last.args[1] >= 1 /\ last.args[2] <= 0

\* ------------------------------------------------------------------ C10
C10_Handed(exactNets) ==
    IsCommit(last') =>
       LET m == last'.mem
           a == assignments[last'.intent]
       IN  /\ (last'.err = NoErr /\ a.is_conditional) =>
                 /\ Len(cond_pending') = Len(cond_pending) + 1
                 /\ IsPrefix(cond_pending, cond_pending')
                 /\ LET p == cond_pending'[Len(cond_pending')]
                    IN  /\ p.mem = m
                        /\ p.addr.kind # "indexed" /\ p.addr.w <= mems[m].addrwidth
                        /\ p.data.kind # "indexed" /\ p.data.w = mems[m].bitwidth
                        /\ p.enable.kind # "indexed" /\ p.enable.w = 1
                        /\ last'.args[1].kind # "indexed" => SameSignal(p.addr, last'.args[1])
                        /\ a.rhs.kind = "wire" => SameSignal(p.data, a.rhs)
                        /\ a.rhs.kind = "EnabledWrite" =>
                              /\ a.rhs.data.kind # "indexed" => SameSignal(p.data, a.rhs.data)
                              /\ a.rhs.enable.kind # "indexed" => SameSignal(p.enable, a.rhs.enable)
                 /\ WritePortsUnchanged
                 /\ exactNets => nets' = nets
           /\ (last'.err = NoErr /\ ~a.is_conditional) => cond_pending' = cond_pending
           /\ last'.err # NoErr => (cond_pending' = cond_pending /\ WritePortsUnchanged)

\* C10 as claimed: a validated conditional commit hands (memory, address,
\* data, enable), coerced, to the conditional component once and appends no
\* node to the write-port list or the netlist; an unconditional commit hands
\* nothing over; a failed commit hands nothing over and builds no write port.
C10_Original == [][C10_Handed(TRUE)]_vars

\* C10 amended: ... and appends no write node to the write-port list or the
\* netlist (the read ports of indexed accesses among its operands are built
\* during coercion); the rest as claimed.
C10_Amended ==
    [][/\ C10_Handed(FALSE)
       /\ (IsCommit(last') /\ last'.err = NoErr /\ assignments[last'.intent].is_conditional)
             => /\ IsPrefix(nets, nets')
                /\ \A k \in DOMAIN nets' : k > Len(nets) => IsRead(nets'[k])]_vars

\* a conditional write of an indexed access, handed over with its read port built
C10_Witness ==
    /\ last.op = "setitem" /\ last.intent # 0 /\ last.err = NoErr
    /\ mems[last.mem].kind = "ram"
    /\ assignments[last.intent].is_conditional
    /\ assignments[last.intent].rhs.kind = "indexed"
    /\ Len(cond_pending) = 1
    /\ Len(ReadNodes(nets)) = 1
    /\ mems[last.mem].writeport_nets = <<>>

\* ------------------------------------------------------------------ C5
\* C5: with a static table T, resolve(k) returns T[k] when 0 <= k <= 2^w - 1,
\* k is an index of T and 0 <= T[k] <= 2^b - 1; fails with AddressOutOfRange
\* when k < 0, k > 2^w - 1 or k is no index of T; fails with ValueOutOfRange
\* when the entry is negative or >= 2^b; so what it returns lies in
\* [0, 2^b - 1] and the address it accepted in [0, 2^w - 1].
C5_TableResolve ==
    (last.op = "get_read_data" /\ mems[last.mem].data.src = "table") =>
       LET k == last.args[1]
           T == mems[last.mem].data.store
           maxaddr == Pow2(mems[last.mem].addrwidth) - 1
           maxval == Pow2(mems[last.mem].bitwidth) - 1
           inTable == k >= 0 /\ k < Len(T)
       IN  /\ (0 <= k /\ k <= maxaddr /\ inTable /\ 0 <= T[k + 1] /\ T[k + 1] <= maxval)
                 => (last.err = NoErr /\ last.ret = T[k + 1])
           /\ (k < 0 \/ k > maxaddr \/ ~inTable)
                 => last.err = "AddressOutOfRange"
           /\ (0 <= k /\ k <= maxaddr /\ inTable /\ (T[k + 1] < 0 \/ T[k + 1] > maxval))
                 => last.err = "ValueOutOfRange"
           /\ last.err = NoErr
                 => (0 <= last.ret /\ last.ret <= maxval /\ 0 <= k /\ k <= maxaddr)

\* the largest value a word holds, read at the last address of the table
C5_Witness ==
    /\ last.op = "get_read_data" /\ last.err = NoErr
    /\ mems[last.mem].data.src = "table"
    /\ last.args[1] = Pow2(mems[last.mem].addrwidth) - 1
    /\ last.args[1] = Len(mems[last.mem].data.store) - 1
    /\ last.ret = Pow2(mems[last.mem].bitwidth) - 1
    /\ last.ret = mems[last.mem].data.store[last.args[1] + 1]

\* ------------------------------------------------------------------ C6
\* C6: with a callable data source f, resolve(k) for k in [0, 2^w - 1] calls
\* f once, with k; returns what f returned when that lies in [0, 2^b - 1];
\* fails with ResolutionError when f raised, whatever it raised, and never
\* lets the raw fault through; for k out of range it fails with
\* AddressOutOfRange and does not call f.
C6_GeneratorResolve ==
    (last.op = "get_read_data" /\ mems[last.mem].data.src \in {"function", "callable"}) =>
       LET k == last.args[1]
           maxaddr == Pow2(mems[last.mem].addrwidth) - 1
           maxval == Pow2(mems[last.mem].bitwidth) - 1
       IN  /\ last.err # "RawFault"
           /\ (k < 0 \/ k > maxaddr)
                 => (last.err = "AddressOutOfRange" /\ last.called = <<>>)
           /\ (0 <= k /\ k <= maxaddr) =>
                 /\ Len(last.called) = 1
                 /\ last.called[1].arg = k
                 /\ (last.called[1].out.how = "return"
                       /\ 0 <= last.called[1].out.v /\ last.called[1].out.v <= maxval)
                       => (last.err = NoErr /\ last.ret = last.called[1].out.v)
                 /\ last.called[1].out.how # "return" => last.err = "ResolutionError"
====
